---- MODULE Spec2Model ----
(***************************************************************************)
(* Model of src/main.py: the complaint-letter endpoint, the support-chat   *)
(* endpoint with its in-memory session store, and the chat-history read.   *)
(*                                                                         *)
(* All three handlers are `async def` coroutines served by one event loop. *)
(* A coroutine keeps the loop until it awaits or returns; none of the      *)
(* handlers contains an await (model.generate_content at line 263 is a     *)
(* synchronous call), so a handler that has started runs to its end before *)
(* any other handler starts.  The chat handler is still modelled in two    *)
(* steps, split at the model call, so that the state "prompt composed,     *)
(* turn pair not yet appended" exists and can be talked about.             *)
(***************************************************************************)
EXTENDS Naturals, Sequences, FiniteSets, TLC

VARIABLES
    DEBUG,            \* Config.DEBUG, fixed at import time
    chat_histories,   \* the dict session_id -> list of turns
    pc,               \* per request slot: "idle" or "generate" (inside line 263)
    locals,           \* per request slot: the handler's local variables
    response,         \* what the handler that ended last delivered; NoResponse while one runs
    referenced,       \* history: session ids a support-chat request has referenced
    log,              \* history: per session id, the turns its own requests appended, in order
    successes         \* history: per session id, the number of successful exchanges

vars == <<DEBUG, chat_histories, pc, locals, response, referenced, log, successes>>

----------------------------------------------------------------------------
(* Bounds and input sets *)

MaxTurns == 6
MaxEvidenceLen == 4

SessionIds == {"s1", "s2"}
Msgs == {"m1"}
Replies == {"r1", "r2"}
Reqs == {"q1", "q2"}

----------------------------------------------------------------------------
(* Configuration *)

EMERGENCY_HOTLINE == "1-800-799-SAFE"
LEGAL_AID_URL == "www.womenslaw.org"
HistoryWindow == 5

----------------------------------------------------------------------------
(* Optional values: None, or Some(v) *)

None == [some |-> FALSE]
Some(v) == [some |-> TRUE, v |-> v]

(* Python truthiness of an Optional[str] whose value is a TLA+ string *)
Truthy(o) == o.some /\ o.v # ""

Max(a, b) == IF a >= b THEN a ELSE b
Min(a, b) == IF a <= b THEN a ELSE b

----------------------------------------------------------------------------
(* Exceptions and error responses *)

(* str(e): the exception's message; starlette's HTTPException prints as     *)
(* "<status_code>: <detail>".                                               *)
StrOf(e) ==
    IF e.class = "HTTPException" THEN <<e.status_text, ": ">> \o e.detail
    ELSE <<e.msg>>

GenerateError == [class |-> "GoogleAPIError", msg |-> "model call failed"]
TextError == [class |-> "ValueError", msg |-> "response has no valid text part"]

NoResponse == [endpoint |-> "none", request |-> None, status |-> 0, body |-> None]

ChatFailureDetail ==
    <<"We're having trouble processing your message. If you need immediate help, please call ",
      EMERGENCY_HOTLINE>>

(* lines 273-279 *)
ChatExcept(e) ==
    IF DEBUG THEN [status |-> 500, body |-> [detail |-> StrOf(e)]]
    ELSE [status |-> 500, body |-> [detail |-> ChatFailureDetail]]

----------------------------------------------------------------------------
(* Session store and prompt composition *)

(* lines 245-246: the dict after the lazy creation of the session's list *)
EnsureSession(h, sid) ==
    IF sid \in DOMAIN h THEN h ELSE h @@ (sid :> <<>>)

(* list.append on the list object stored under sid *)
(* Variant: every session's list is one shared list object *)
StoreTurn_AllSessions(h, sid, turn) ==
    [s \in DOMAIN h |-> Append(h[s], turn)]

StoreTurn(h, sid, turn) ==
    [h EXCEPT ![sid] = Append(h[sid], turn)]

(* history[-5:] *)
(* Variant: history[:5] *)
LastTurns_FirstFive(history) ==
    SubSeq(history, 1, Min(Len(history), HistoryWindow))

LastTurns(history) ==
    SubSeq(history, Max(1, Len(history) - HistoryWindow + 1), Len(history))

(* f"{'User' if msg['isUser'] else 'Assistant'}: {msg['text']}" *)
FormatTurn(msg) ==
    [role |-> IF msg.isUser THEN "User" ELSE "Assistant", text |-> msg.text]

(* lines 252-255: the lines joined by "\n", kept as the sequence of lines *)
FormatHistory(history) ==
    [i \in 1..Len(LastTurns(history)) |-> FormatTurn(LastTurns(history)[i])]

(* lines 258-261: SUPPORT_CHAT_PROMPT with its two placeholders filled *)
ComposePrompt(history, message) ==
    [history |-> FormatHistory(history), message |-> message]

TotalTurns ==
    LET RECURSIVE Sum(_)
        Sum(S) == IF S = {} THEN 0
                  ELSE LET s == CHOOSE x \in S : TRUE
                       IN Len(chat_histories[s]) + Sum(S \ {s})
    IN Sum(DOMAIN chat_histories)

----------------------------------------------------------------------------
(* Complaint letter: a str is kept as its sequence of characters where the  *)
(* code looks inside it (evidence_description), as a sequence of words      *)
(* where the code splits it on whitespace (filing_authority), and as one    *)
(* opaque string elsewhere.                                                 *)

EvidenceChars == {"a", ",", " ", "\n"}

(* Is sep a prefix of s? *)
StartsWith(s, sep) ==
    Len(s) >= Len(sep) /\ SubSeq(s, 1, Len(sep)) = sep

(* str.split(sep): cut at every occurrence of sep, scanning left to right *)
RECURSIVE PySplitFrom(_, _, _)
PySplitFrom(s, sep, acc) ==
    IF s = <<>> THEN <<acc>>
    ELSE IF StartsWith(s, sep)
         THEN <<acc>> \o PySplitFrom(SubSeq(s, Len(sep) + 1, Len(s)), sep, <<>>)
         ELSE PySplitFrom(Tail(s), sep, Append(acc, Head(s)))

PySplit(s, sep) == PySplitFrom(s, sep, <<>>)

(* sep.join(parts) *)
RECURSIVE PyJoin(_, _)
PyJoin(parts, sep) ==
    IF parts = <<>> THEN <<>>
    ELSE IF Len(parts) = 1 THEN parts[1]
    ELSE parts[1] \o sep \o PyJoin(Tail(parts), sep)

EvidenceOnRequest == <<"Documentation is available and can be provided upon request.">>

(* format_evidence_description, lines 144-152 *)
(* Variant: the items joined without their bullets *)
format_evidence_description_NoBullets(evidence) ==
    IF ~(evidence.some /\ evidence.v # <<>>) THEN EvidenceOnRequest
    ELSE PyJoin(PySplit(evidence.v, <<",", " ">>), <<"\n">>)

format_evidence_description(evidence) ==
    IF ~(evidence.some /\ evidence.v # <<>>) THEN EvidenceOnRequest
    ELSE LET evidence_points == PySplit(evidence.v, <<",", " ">>)
         IN IF Len(evidence_points) = 1 THEN evidence.v
            ELSE PyJoin([i \in 1..Len(evidence_points) |-> <<"-", " ">> \o evidence_points[i]],
                        <<"\n">>)

(* create_contact_section, lines 127-133: the lines joined by "\n" *)
create_contact_section(info) ==
    LET email == IF Truthy(info.complainant_email) THEN <<info.complainant_email.v>> ELSE <<>>
        phone == IF Truthy(info.complainant_contact) THEN <<info.complainant_contact.v>> ELSE <<>>
    IN IF email \o phone # <<>> THEN email \o phone
       ELSE <<"Contact information provided separately">>

(* create_injuries_section, lines 135-142: the lines of the block, none if omitted *)
create_injuries_section(injuries) ==
    IF ~Truthy(injuries) THEN <<>>
    ELSE <<"", "Injuries Sustained:", "", injuries.v>>

(* line 192 *)
authority_title(filing_authority) ==
    IF Len(filing_authority) > 1 THEN filing_authority[Len(filing_authority)]
    ELSE "Sir/Madam"

(* line 210: the text put on template line 114; n = 0 marks a line that is not numbered *)
(* Variant: the filing_type test inverted *)
additional_requests_Inverted(filing_type) ==
    IF filing_type # "self"
    THEN [n |-> 5, text |-> "Provision of necessary support services and resources"]
    ELSE [n |-> 0, text |-> ""]

additional_requests(filing_type) ==
    IF filing_type = "self"
    THEN [n |-> 5, text |-> "Provision of necessary support services and resources"]
    ELSE [n |-> 0, text |-> ""]

(* COMPLAINT_LETTER_TEMPLATE lines 108-114: the "Request for Action" list *)
RequestForAction(additional) ==
    << [n |-> 0, text |-> "Request for Action:"],
       [n |-> 0, text |-> ""],
       [n |-> 1, text |-> "Implementation of immediate protective measures to ensure safety"],
       [n |-> 2, text |-> "Thorough investigation of the reported incidents"],
       [n |-> 3, text |-> "Appropriate legal action based on the investigation findings"],
       [n |-> 4, text |-> "Regular updates on the case progress"],
       additional >>

ThirdPartyDetail ==
    <<"Third-party complaints require victim name, address, and relationship details">>

ComplaintFailureDetail ==
    <<"We encountered an issue processing your request. If you're in immediate danger, please contact emergency services.">>

(* lines 158-160: all([...]) over the three victim fields *)
VictimDetailsGiven(info) ==
    /\ Truthy(info.victim_name)
    /\ Truthy(info.victim_address)
    /\ Truthy(info.relationship_to_victim)

(* lines 166-214: the template's placeholders and what fills them *)
LetterContent(info) ==
    [ current_date |-> "today",
      complainant_name |-> info.complainant_name,
      complainant_address |-> info.complainant_address,
      contact_section |-> create_contact_section(info),
      filing_authority |-> info.filing_authority,
      filing_authority_address |-> info.filing_authority_address,
      authority_title |-> authority_title(info.filing_authority),
      incident_date |-> info.date_of_incident,
      incident_time |-> info.time_of_incident,
      incident_location |-> info.location_of_incident,
      filing_capacity |->
          IF info.filing_type = "third_party"
          THEN <<"I am filing this complaint on behalf of ", info.victim_name.v,
                 ", as their ", info.relationship_to_victim.v, ".">>
          ELSE <<"I am the direct victim of the incidents described in this complaint.">>,
      incident_narrative |-> info.incident_details,
      injuries_section |-> create_injuries_section(info.injuries_sustained),
      evidence_section |->
          [heading |-> "Supporting Evidence:",
           text |-> format_evidence_description(info.evidence_description)],
      witness_section |->
          [heading |-> "Witness Information:",
           text |-> IF Truthy(info.witness_information) THEN info.witness_information.v
                    ELSE "Witness details can be provided as needed with appropriate privacy protections."],
      request_for_action |-> RequestForAction(additional_requests(info.filing_type)),
      contact_details |->
          IF Truthy(info.complainant_contact) THEN <<"Contact: ", info.complainant_contact.v>>
          ELSE <<>>,
      victim_information |->
          IF info.filing_type = "third_party"
          THEN <<"", "Victim Information:", info.victim_name.v, info.victim_address.v>>
          ELSE <<>> ]

(* The try block, lines 156-231: what it returns or raises *)
ComplaintTry(info) ==
    IF info.filing_type = "third_party" /\ ~VictimDetailsGiven(info)
    THEN [raised |-> TRUE,
          exc |-> [class |-> "HTTPException", status |-> 400, status_text |-> "400",
                   detail |-> ThirdPartyDetail]]
    ELSE [raised |-> FALSE,
          value |-> [success |-> TRUE,
                     complaint_letter |-> LetterContent(info),
                     safety_reminder |-> "Please keep a copy of this document in a secure location.",
                     immediate_help |-> [emergency |-> EMERGENCY_HOTLINE,
                                         legal_aid |-> LEGAL_AID_URL]]]

(* `except Exception` catches every exception class derived from Exception, *)
(* fastapi's HTTPException among them.                                       *)
ExceptionClasses == {"HTTPException", "GoogleAPIError", "ValueError"}

(* generate_complaint_letter, lines 155-239 *)
generate_complaint_letter(info) ==
    LET try == ComplaintTry(info)
    IN IF ~try.raised THEN [status |-> 200, body |-> try.value]
       ELSE IF try.exc.class \in ExceptionClasses
            THEN IF DEBUG THEN [status |-> 500, body |-> [detail |-> StrOf(try.exc)]]
                 ELSE [status |-> 500, body |-> [detail |-> ComplaintFailureDetail]]
            ELSE [status |-> try.exc.status, body |-> [detail |-> try.exc.detail]]

(* Request payloads *)
OptionalNames == {None, Some(""), Some("Sita")}

RECURSIVE SeqsUpTo(_, _)
SeqsUpTo(S, n) ==
    IF n = 0 THEN {<<>>}
    ELSE LET shorter == SeqsUpTo(S, n - 1)
         IN shorter \cup {Append(s, c) : s \in {t \in shorter : Len(t) = n - 1}, c \in S}

EvidenceInputs == {None} \cup {Some(e) : e \in SeqsUpTo(EvidenceChars, MaxEvidenceLen)}

(* The fields no claim depends on take one of two profiles: every optional  *)
(* field given, or none.                                                    *)
FullProfile ==
    [ complainant_name |-> "Maya", complainant_address |-> "Kathmandu 44600",
      complainant_contact |-> Some("9800000000"), complainant_email |-> Some("maya@example.org"),
      filing_authority |-> <<"Inspector", "Rai">>, filing_authority_address |-> "Ward 4 Police Office",
      incident_details |-> "details", date_of_incident |-> "2024-01-01",
      time_of_incident |-> "21:00", location_of_incident |-> "home",
      injuries_sustained |-> Some("bruises"), witness_information |-> Some("neighbour") ]

BareProfile ==
    [ complainant_name |-> "Maya", complainant_address |-> "Kathmandu 44600",
      complainant_contact |-> None, complainant_email |-> None,
      filing_authority |-> <<"Police">>, filing_authority_address |-> "Ward 4 Police Office",
      incident_details |-> "details", date_of_incident |-> "2024-01-01",
      time_of_incident |-> "21:00", location_of_incident |-> "home",
      injuries_sustained |-> None, witness_information |-> None ]

Info(profile, ft, vn, va, rel, ev) ==
    profile @@ [filing_type |-> ft, victim_name |-> vn, victim_address |-> va,
                relationship_to_victim |-> rel, evidence_description |-> ev]

ComplaintInfos ==
    { Info(profile, ft, vn, va, rel, ev) :
        profile \in {FullProfile, BareProfile},
        ft \in {"self", "third_party"},
        vn \in OptionalNames, va \in OptionalNames, rel \in OptionalNames,
        ev \in EvidenceInputs }

(* A few payloads for the whole-program specification *)
SampleInfos ==
    { Info(BareProfile, ft, vn, Some("Sita"), Some("Sita"), None) :
        ft \in {"self", "third_party"}, vn \in {None, Some("Sita")} }

(* The event loop is free: no handler has started and not yet ended. *)
(* Variant: the model call awaited, so the loop is handed back during it *)
LoopFree_Await == TRUE

LoopFree == \A r \in Reqs : pc[r] = "idle"

NoLocals == [session_id |-> "", message |-> "", prompt |-> None, snapshot |-> <<>>]

----------------------------------------------------------------------------
Init ==
    /\ DEBUG \in BOOLEAN
    /\ chat_histories = <<>>
    /\ pc = [r \in Reqs |-> "idle"]
    /\ locals = [r \in Reqs |-> NoLocals]
    /\ response = NoResponse
    /\ referenced = {}
    /\ log = [s \in SessionIds |-> <<>>]
    /\ successes = [s \in SessionIds |-> 0]

(* get_support_chat, lines 243-263: create the session's list if absent,     *)
(* compose the prompt from its last turns, and call the model.               *)
BeginChat(r, sid, msg) ==
    /\ LoopFree
    /\ pc[r] = "idle"
    /\ TotalTurns <= MaxTurns
    /\ chat_histories' = EnsureSession(chat_histories, sid)
    /\ locals' = [locals EXCEPT ![r] =
                    [session_id |-> sid,
                     message |-> msg,
                     prompt |-> ComposePrompt(EnsureSession(chat_histories, sid)[sid], msg),
                     snapshot |-> EnsureSession(chat_histories, sid)[sid]]]
    /\ pc' = [pc EXCEPT ![r] = "generate"]
    /\ response' = NoResponse
    /\ referenced' = referenced \cup {sid}
    /\ UNCHANGED <<DEBUG, log, successes>>

ChatRequest(r) == [session_id |-> locals[r].session_id, message |-> locals[r].message]

(* line 263 raises: nothing was appended; lines 273-279 *)
GenerateRaises(r) ==
    /\ pc[r] = "generate"
    /\ response' = [endpoint |-> "support-chat", request |-> ChatRequest(r)]
                     @@ ChatExcept(GenerateError)
    /\ pc' = [pc EXCEPT ![r] = "idle"]
    /\ locals' = [locals EXCEPT ![r] = NoLocals]
    /\ UNCHANGED <<DEBUG, chat_histories, referenced, log, successes>>

(* line 263 returns a response whose .text raises (no valid part): line 266  *)
(* has appended the user turn when line 267 raises; lines 273-279            *)
TextRaises(r) ==
    /\ pc[r] = "generate"
    /\ LET sid == locals[r].session_id
           user == [text |-> locals[r].message, isUser |-> TRUE]
       IN /\ chat_histories' = StoreTurn(chat_histories, sid, user)
          /\ log' = [log EXCEPT ![sid] = Append(@, user)]
    /\ response' = [endpoint |-> "support-chat", request |-> ChatRequest(r)]
                     @@ ChatExcept(TextError)
    /\ pc' = [pc EXCEPT ![r] = "idle"]
    /\ locals' = [locals EXCEPT ![r] = NoLocals]
    /\ UNCHANGED <<DEBUG, referenced, successes>>

(* line 263 returns a response with text: lines 266-272 *)
GenerateReturns(r, text) ==
    /\ pc[r] = "generate"
    /\ LET sid == locals[r].session_id
           user == [text |-> locals[r].message, isUser |-> TRUE]
           assistant == [text |-> text, isUser |-> FALSE]
       IN /\ chat_histories' = StoreTurn(StoreTurn(chat_histories, sid, user), sid, assistant)
          /\ log' = [log EXCEPT ![sid] = Append(Append(@, user), assistant)]
          /\ successes' = [successes EXCEPT ![sid] = @ + 1]
          /\ response' = [endpoint |-> "support-chat", request |-> ChatRequest(r),
                          status |-> 200,
                          body |-> [response |-> text, session_id |-> sid]]
    /\ pc' = [pc EXCEPT ![r] = "idle"]
    /\ locals' = [locals EXCEPT ![r] = NoLocals]
    /\ UNCHANGED <<DEBUG, referenced>>

(* get_chat_history, lines 281-285 *)
(* Variant: the read returns the prompt's window, not the whole list *)
get_chat_history_Window(session_id) ==
    IF session_id \notin DOMAIN chat_histories THEN [messages |-> <<>>]
    ELSE [messages |-> LastTurns(chat_histories[session_id])]

get_chat_history(session_id) ==
    IF session_id \notin DOMAIN chat_histories THEN [messages |-> <<>>]
    ELSE [messages |-> chat_histories[session_id]]

GetChatHistory(sid) ==
    /\ LoopFree
    /\ response' = [endpoint |-> "chat-history", request |-> [session_id |-> sid],
                    status |-> 200, body |-> get_chat_history(sid)]
    /\ UNCHANGED <<DEBUG, chat_histories, pc, locals, referenced, log, successes>>

(* options_support_chat, lines 287-289 *)
OptionsSupportChat ==
    /\ LoopFree
    /\ response' = [endpoint |-> "options", request |-> None, status |-> 200, body |-> None]
    /\ UNCHANGED <<DEBUG, chat_histories, pc, locals, referenced, log, successes>>

(* POST /api/generate-complaint *)
GenerateComplaint(info) ==
    /\ LoopFree
    /\ response' = [endpoint |-> "generate-complaint", request |-> info]
                     @@ generate_complaint_letter(info)
    /\ UNCHANGED <<DEBUG, chat_histories, pc, locals, referenced, log, successes>>

Next ==
    \/ \E info \in SampleInfos : GenerateComplaint(info)
    \/ \E r \in Reqs, sid \in SessionIds, msg \in Msgs : BeginChat(r, sid, msg)
    \/ \E r \in Reqs : GenerateRaises(r)
    \/ \E r \in Reqs : TextRaises(r)
    \/ \E r \in Reqs, text \in Replies : GenerateReturns(r, text)
    \/ \E sid \in SessionIds : GetChatHistory(sid)
    \/ OptionsSupportChat

Spec == Init /\ [][Next]_vars

(* The letter engine alone: it keeps no state between requests, so each     *)
(* behaviour serves one request, drawn from all of ComplaintInfos.          *)
NextLetter ==
    /\ response = NoResponse
    /\ \E info \in ComplaintInfos : GenerateComplaint(info)

SpecLetter == Init /\ [][NextLetter]_vars

----------------------------------------------------------------------------
(* Properties *)

(* The turns stored for a session id; none when the id is not in the dict *)
Turns(sid) == IF sid \in DOMAIN chat_histories THEN chat_histories[sid] ELSE <<>>

InFlight(r) == pc[r] = "generate"

IsComplaintResponse == response.endpoint = "generate-complaint"
IsChatResponse == response.endpoint = "support-chat"
IsHistoryResponse == response.endpoint = "chat-history"

MissingVictimDetails(info) ==
    /\ info.filing_type = "third_party"
    /\ \/ ~info.victim_name.some \/ info.victim_name.v = ""
       \/ ~info.victim_address.some \/ info.victim_address.v = ""
       \/ ~info.relationship_to_victim.some \/ info.relationship_to_victim.v = ""

(* C1: a third_party complaint request with a victim field absent or empty  *)
(* is answered with the 400 "Third-party complaints require ..." error.      *)
C1_MissingVictimIs400 ==
    (IsComplaintResponse /\ MissingVictimDetails(response.request))
        => (response.status = 400 /\ response.body.detail = ThirdPartyDetail)

(* C2: a support-chat request that ends in failure leaves the session's     *)
(* stored turns as they were when the request began.                        *)
C2_FailureKeepsHistory ==
    [][\A r \in Reqs :
         (InFlight(r) /\ pc'[r] = "idle" /\ response'.status = 500)
             => chat_histories'[locals[r].session_id] = locals[r].snapshot]_vars

(* C3: once the requests so far have completed, every session's history is  *)
(* twice as long as its number of successful exchanges and its isUser flags *)
(* alternate, starting with a user turn.                                    *)
C3_PairsAlternate ==
    LoopFree =>
        \A sid \in DOMAIN chat_histories :
            /\ Len(chat_histories[sid]) = 2 * successes[sid]
            /\ \A i \in 1..Len(chat_histories[sid]) :
                   chat_histories[sid][i].isUser = (i % 2 = 1)

(* C4: the history part of the prompt sent to the model is the last         *)
(* min(n, 5) turns of the stored history (which does not yet hold the new   *)
(* message), oldest first, each labelled User or Assistant by its flag.     *)
C4_PromptIsLastFive ==
    \A r \in Reqs :
        InFlight(r) =>
            LET h == chat_histories[locals[r].session_id]
                n == Len(h)
                k == IF n < 5 THEN n ELSE 5
                lines == locals[r].prompt.history
            IN /\ h = locals[r].snapshot
               /\ Len(lines) = k
               /\ \A i \in 1..k :
                      /\ lines[i].text = h[n - k + i].text
                      /\ lines[i].role = IF h[n - k + i].isUser THEN "User" ELSE "Assistant"
               /\ locals[r].prompt.message = locals[r].message

C4_Witness ==
    \E r \in Reqs :
        /\ InFlight(r)
        /\ Len(locals[r].snapshot) > 5
        /\ \E i, j \in 1..Len(locals[r].prompt.history) :
               locals[r].prompt.history[i].text = "r1" /\ locals[r].prompt.history[j].text = "r2"

ContainsPart(detail, part) == \E i \in 1..Len(detail) : detail[i] = part

(* C5: every failure response of the support-chat and generate-complaint    *)
(* endpoints carries safety information: the chat message holds the         *)
(* emergency hotline, the complaint message a hotline, legal-aid or         *)
(* emergency-services reference.                                            *)
C5_FailuresCarrySafetyInfo ==
    /\ (IsChatResponse /\ response.status >= 400)
           => ContainsPart(response.body.detail, EMERGENCY_HOTLINE)
    /\ (IsComplaintResponse /\ response.status >= 400)
           => \/ ContainsPart(response.body.detail, EMERGENCY_HOTLINE)
              \/ ContainsPart(response.body.detail, LEGAL_AID_URL)
              \/ response.body.detail = ComplaintFailureDetail

(* C6: a chat-history read succeeds and returns the turns appended for the  *)
(* session id, in the order they were appended; for an id no support-chat   *)
(* request has referenced it returns the empty list.                        *)
C6_ReadReturnsAppended ==
    IsHistoryResponse =>
        /\ response.status = 200
        /\ response.body.messages = log[response.request.session_id]
        /\ response.request.session_id \notin referenced => response.body.messages = <<>>

C6_Witness ==
    /\ IsHistoryResponse
    /\ Len(response.body.messages) > 5
    /\ \E s \in SessionIds : s \notin referenced

NumberedLines(section) == SelectSeq(section, LAMBDA line : line.n > 0)

(* C7: a valid complaint record is rendered, and the letter's Request for   *)
(* Action list has 5 numbered lines for self (the fifth being the support   *)
(* services request) and 4 for third_party, numbered 1, 2, 3, ...           *)
C7_RequestLines ==
    (IsComplaintResponse /\ ~MissingVictimDetails(response.request)) =>
        /\ response.status = 200
        /\ LET numbered == NumberedLines(response.body.complaint_letter.request_for_action)
           IN /\ Len(numbered) = IF response.request.filing_type = "self" THEN 5 ELSE 4
              /\ \A i \in 1..Len(numbered) : numbered[i].n = i
              /\ response.request.filing_type = "self"
                     => numbered[5].text = "Provision of necessary support services and resources"

C7_Witness ==
    /\ IsComplaintResponse
    /\ response.status = 200
    /\ response.request.filing_type = "third_party"

(* The lines of a text: its pieces between line breaks *)
RECURSIVE LinesFrom(_, _)
LinesFrom(text, line) ==
    IF text = <<>> THEN <<line>>
    ELSE IF Head(text) = "\n" THEN <<line>> \o LinesFrom(Tail(text), <<>>)
    ELSE LinesFrom(Tail(text), Append(line, Head(text)))

LinesOf(text) == LinesFrom(text, <<>>)

Bullet(item) == <<"-", " ">> \o item

(* Where the i-th bullet starts in the bulleted text: after the bullets,    *)
(* their "- " prefixes and their line breaks before it.                     *)
RECURSIVE BulletOffset(_, _)
BulletOffset(items, i) ==
    IF i = 1 THEN 0 ELSE BulletOffset(items, i - 1) + Len(items[i - 1]) + 3

Occurs(sep, s) == \E i \in 1..Len(s) : StartsWith(SubSeq(s, i, Len(s)), sep)

EvidenceGiven(ev) == ev.some /\ Len(ev.v) > 0

(* C8 as claimed: no evidence gives the fixed sentence; one item is emitted  *)
(* verbatim; k > 1 items give exactly k lines, the i-th being "- " and the   *)
(* i-th item.                                                                *)
C8_ExactlyKLines ==
    (IsComplaintResponse /\ response.status = 200) =>
        LET ev == response.request.evidence_description
            out == response.body.complaint_letter.evidence_section.text
        IN IF ~EvidenceGiven(ev) THEN out = EvidenceOnRequest
           ELSE LET items == PySplit(ev.v, <<",", " ">>)
                IN IF Len(items) = 1 THEN out = ev.v
                   ELSE /\ Len(LinesOf(out)) = Len(items)
                        /\ \A i \in 1..Len(items) : LinesOf(out)[i] = Bullet(items[i])

(* C8 as amended: no evidence gives the fixed sentence; the items are the    *)
(* pieces of the input between its ", " separators; one item is emitted     *)
(* verbatim; k > 1 items give "- " and each item in input order, joined by  *)
(* single line breaks, which is exactly k lines when no item holds a line   *)
(* break.                                                                   *)
C8_BulletsJoined ==
    (IsComplaintResponse /\ response.status = 200) =>
        LET ev == response.request.evidence_description
            out == response.body.complaint_letter.evidence_section.text
        IN IF ~EvidenceGiven(ev) THEN out = EvidenceOnRequest
           ELSE LET items == PySplit(ev.v, <<",", " ">>)
                    k == Len(items)
                IN /\ PyJoin(items, <<",", " ">>) = ev.v
                   /\ \A i \in 1..k : ~Occurs(<<",", " ">>, items[i])
                   /\ k = 1 => out = ev.v
                   /\ k > 1 =>
                        /\ Len(out) = BulletOffset(items, k) + Len(items[k]) + 2
                        /\ \A i \in 1..k :
                               LET at == BulletOffset(items, i)
                               IN /\ SubSeq(out, at + 1, at + 2 + Len(items[i])) = Bullet(items[i])
                                  /\ i < k => out[at + 3 + Len(items[i])] = "\n"
                        /\ (\A i \in 1..k : ~Occurs(<<"\n">>, items[i])) =>
                               /\ Len(LinesOf(out)) = k
                               /\ \A i \in 1..k : LinesOf(out)[i] = Bullet(items[i])

C8_Witness ==
    /\ IsComplaintResponse
    /\ response.status = 200
    /\ EvidenceGiven(response.request.evidence_description)
    /\ Len(PySplit(response.request.evidence_description.v, <<",", " ">>)) = 2
    /\ Len(LinesOf(response.body.complaint_letter.evidence_section.text)) = 2

(* C9: the turns stored for a session id are exactly the turns its own      *)
(* requests appended, in order, whatever requests for other ids ran in      *)
(* between: no request or read for one id changes another id's history.     *)
C9_SessionsIsolated ==
    \A sid \in SessionIds : Turns(sid) = log[sid]

C9_Witness ==
    /\ Len(Turns("s1")) >= 2
    /\ Len(Turns("s2")) >= 2
    /\ \E r \in Reqs : InFlight(r)

(* C10 as claimed: while a support-chat request has composed its prompt and *)
(* not yet appended its turns, a second request for the same session id     *)
(* can start and compose its prompt from the same history.                  *)
C10_SecondCanCompose ==
    \A r1, r2 \in Reqs :
        (r1 # r2 /\ InFlight(r1) /\ ~InFlight(r2))
            => ENABLED (\E msg \in Msgs : BeginChat(r2, locals[r1].session_id, msg))

(* C10 as amended: support-chat requests do not overlap; between a          *)
(* request's composing its prompt and its appending its turns no other      *)
(* request composes or appends, so the history it composed from is still    *)
(* the stored one.                                                          *)
C10_Serialized ==
    \A r1 \in Reqs :
        InFlight(r1) =>
            /\ \A r2 \in Reqs \ {r1} : ~InFlight(r2)
            /\ Turns(locals[r1].session_id) = locals[r1].snapshot

C10_Witness ==
    \E r \in Reqs :
        /\ InFlight(r)
        /\ successes[locals[r].session_id] >= 1

====
